---------------------------- MODULE Spec2Model ----------------------------
(***************************************************************************)
(* State-machine model of src/server.js: the chat relay's presence table   *)
(* (userState, lastActiveTimes), the history log (messageHistory), the     *)
(* WebSocket clients with their readyState, the per-connection reaper      *)
(* intervals and every handler of the file.  Node runs one handler at a    *)
(* time to completion, so every handler is one atomic action.              *)
(***************************************************************************)
EXTENDS Integers, Sequences, FiniteSets, TLC

(***************************************************************************)
(* Bounds of the model.                                                    *)
(***************************************************************************)
NumSockets == 2
MaxHistory == 2
MaxTime == 5002

(***************************************************************************)
(* Program constants.                                                      *)
(***************************************************************************)
StaleAfter == 5000

(***************************************************************************)
(* Input domains.                                                          *)
(***************************************************************************)
Names == {"alice", "bob"}
Sockets == 1..NumSockets
\* Date.now() starts positive; the clock advances by one of these amounts.
TickDeltas == {5000, 5001}
\* The value of a property an object does not have; also the "no entry"
\* value of lastActiveTimes (a missing key reads as undefined, which is falsy
\* like 0, and Date.now() is never 0).
Undefined == 0
NoName == "-"

\* const newUser = { id: randomUUID(), name: name }: it has no ws property.
NewUserOf(name) == [id |-> "uuid", name |-> name, ws |-> Undefined]
\* The user object of a message: the client sends what registration returned.
\* A value parsed from JSON is never the socket object, so its ws is not one.
UserOf(name) == NewUserOf(name)
\* Request bodies of POST /new-user: {} and {name: ...}.
EmptyBody == << >>
\* The name of a body without a name property: const { name } = request.body
\* gives undefined, which as a key of lastActiveTimes is "undefined".
UndefinedName == "undefined"
EmptyName == ""
\* Bodies that are not empty but name nobody: {nick: ...} and {name: ""}.
NamelessBodies == { [nick |-> "al"], [name |-> EmptyName] }
NameOf(body) == IF "name" \in DOMAIN body THEN body.name ELSE UndefinedName
\* The keys lastActiveTimes[user.name] is read at.
Keys == Names \cup {EmptyName, UndefinedName}

\* Raw frames as they arrive at ws.on("message"): the JSON text is modelled by
\* the value it denotes (json) plus its formatting (fmt: two texts that differ
\* in whitespace denote the same value) and the frame kind (isBinary).
SendFrames ==
    { [json |-> [type |-> "send", text |-> "hi"], fmt |-> 0, isBinary |-> FALSE],
      [json |-> [type |-> "send", text |-> "hi"], fmt |-> 1, isBinary |-> TRUE] }

Frame(json) == [json |-> json, fmt |-> 0, isBinary |-> FALSE]
PingFrames == { Frame([type |-> "ping", user |-> UserOf(n)]) : n \in Names }
JoinFrames == { Frame([type |-> "join", user |-> UserOf(n)]) : n \in Names }
ExitFrames == { Frame([type |-> "exit", user |-> UserOf(n)]) : n \in Names }
ClearFrames == { Frame([type |-> "clear"]) }
OtherFrames == { Frame([type |-> "typing"]) }
\* Frames the handler cannot process: text that is not JSON, and ping, join
\* and exit events without a user.
ThrowFrames ==
    { Frame([invalid |-> TRUE]) }
    \cup { Frame([type |-> t]) : t \in {"ping", "join", "exit"} }
Frames ==
    PingFrames \cup JoinFrames \cup ExitFrames \cup SendFrames
    \cup ClearFrames \cup OtherFrames \cup ThrowFrames

\* JSON.parse(msg): the value, without the formatting or the frame kind.
JSONparse(msg) == msg.json
IsJSON(msg) == "invalid" \notin DOMAIN msg.json
HasUser(receivedMSG) == "user" \in DOMAIN receivedMSG

VARIABLES
    userState,        \* const userState = []            (line 26)
    messageHistory,   \* const messageHistory = []       (line 27)
    lastActiveTimes,  \* const lastActiveTimes = {}      (line 28)
    readyState,       \* ws.readyState of each socket
    intervals,        \* sockets whose setInterval timer is active
    sent,             \* what the handler that ran last sent to each socket, in order
    now,              \* Date.now()
    alive,            \* the Node process is running
    boundName,        \* history variable of SpecBound: the name a connected socket
                      \* joined as first
    clientHistory,    \* history variable: what the client of each open socket has
                      \* put together from the messages it received
    lastOp            \* history variable: the handler that ran last (its type, the
                      \* name it was about and its result: the HTTP status, whether
                      \* a join inserted or an exit removed, the number of events a
                      \* clear dropped, the number of evictions of a sweep)

vars == << userState, messageHistory, lastActiveTimes, readyState, intervals,
           sent, now, alive, boundName, clientHistory, lastOp >>

Nothing == [s \in Sockets |-> << >>]

Op(type, name, res) == [type |-> type, name |-> name, res |-> res]

Init ==
    /\ userState = << >>
    /\ messageHistory = << >>
    /\ lastActiveTimes = [n \in Keys |-> Undefined]
    /\ readyState = [s \in Sockets |-> "CONNECTING"]
    /\ intervals = {}
    /\ sent = Nothing
    /\ now = 1
    /\ alive = TRUE
    /\ boundName = [s \in Sockets |-> NoName]
    /\ clientHistory = Nothing
    /\ lastOp = Op("init", NoName, 0)

(***************************************************************************)
(* Helpers.                                                                *)
(***************************************************************************)
\* userState.findIndex(pred): the 1-based index of the first of the matching
\* indices, 0 for -1 (find returns that element, or undefined).
FirstIndex(matching) ==
    IF matching = {} THEN 0
    ELSE CHOOSE i \in matching : \A k \in matching : i <= k

\* Mutant of FindIndexByName: the lookup compares the id with the name.
FindIndexById(us, name) ==
    FirstIndex({ i \in 1..Len(us) : us[i].id = name })

FindIndexByName(us, name) ==
    FirstIndex({ i \in 1..Len(us) : us[i].name = name })

FindIndexByWs(us, ws) ==
    FirstIndex({ i \in 1..Len(us) : us[i].ws = ws })

\* array.splice(index, 1) with a 1-based index.
Splice(us, i) == SubSeq(us, 1, i - 1) \o SubSeq(us, i + 1, Len(us))

\* The three outbound shapes: the bare user list, the history object and a
\* relayed raw frame.
UsersMsg(us) == [kind |-> "users", data |-> us]
HistoryMsg(h) == [kind |-> "history", data |-> h]
RelayMsg(msg) == [kind |-> "relay", data |-> << msg >>]

\* [...wsServer.clients].filter(o => o.readyState === OPEN).forEach(o => o.send(m))
SendToOpen(box, m) ==
    [s \in Sockets |-> IF readyState[s] = "OPEN" THEN Append(box[s], m) ELSE box[s]]


(***************************************************************************)
(* The client of a socket, as far as the history goes: it starts from the  *)
(* data of a history message, appends the event of every relayed frame     *)
(* (the value the frame's text denotes) and ignores the user lists.  The   *)
(* events are values that JSON.stringify and JSON.parse carry unchanged.   *)
(***************************************************************************)
ClientReceive(history, m) ==
    IF m.kind = "history" THEN m.data
    ELSE IF m.kind = "relay" THEN Append(history, JSONparse(m.data[1]))
    ELSE history

RECURSIVE ClientFold(_, _)
ClientFold(history, msgs) ==
    IF msgs = << >> THEN history
    ELSE ClientFold(ClientReceive(history, Head(msgs)), Tail(msgs))

\* Every open socket's client takes in what the handler sent to it; the
\* client of a socket that is not open is not followed.
ClientsReceive ==
    clientHistory' = [s \in Sockets |->
                        IF readyState'[s] = "OPEN"
                        THEN ClientFold(clientHistory[s], sent'[s])
                        ELSE << >>]

(***************************************************************************)
(* POST /new-user                                                          *)
(***************************************************************************)
\* Mutant of NewUser: the name is pushed without the lookup.
NewUserUnchecked(body) ==
    /\ alive
    /\ IF DOMAIN body = {}
       THEN /\ userState' = userState
            /\ lastOp' = Op("new-user", NoName, 400)
       ELSE /\ userState' = Append(userState, NewUserOf(NameOf(body)))
            /\ lastOp' = Op("new-user", NameOf(body), 200)
    /\ sent' = Nothing
    /\ UNCHANGED << messageHistory, lastActiveTimes, readyState, intervals,
                    now, alive, boundName >>
    /\ ClientsReceive

NewUser(body) ==
    /\ alive
    /\ IF DOMAIN body = {}
       THEN /\ userState' = userState
            /\ lastOp' = Op("new-user", NoName, 400)
       ELSE LET name == NameOf(body)
                isExist == FindIndexByName(userState, name) # 0
            IN
              IF ~isExist
              THEN /\ userState' = Append(userState, NewUserOf(name))
                   /\ lastOp' = Op("new-user", name, 200)
              ELSE /\ userState' = userState
                   /\ lastOp' = Op("new-user", name, 409)
    /\ sent' = Nothing
    /\ UNCHANGED << messageHistory, lastActiveTimes, readyState, intervals,
                    now, alive, boundName >>
    /\ ClientsReceive

(***************************************************************************)
(* wsServer.on("connection")                                               *)
(***************************************************************************)
\* Mutant of Connection: the history object is sent without the log.
ConnectionEmptyHistory(ws) ==
    /\ alive
    /\ readyState[ws] = "CONNECTING"
    /\ readyState' = [readyState EXCEPT ![ws] = "OPEN"]
    /\ sent' = [Nothing EXCEPT ![ws] = << HistoryMsg(<< >>) >>]
    /\ intervals' = intervals \cup {ws}
    /\ lastOp' = Op("connection", NoName, 0)
    /\ UNCHANGED << userState, messageHistory, lastActiveTimes, now, alive,
                    boundName >>
    /\ ClientsReceive

Connection(ws) ==
    /\ alive
    /\ readyState[ws] = "CONNECTING"
    /\ readyState' = [readyState EXCEPT ![ws] = "OPEN"]
    /\ sent' = [Nothing EXCEPT ![ws] = << HistoryMsg(messageHistory) >>]
    /\ intervals' = intervals \cup {ws}
    /\ lastOp' = Op("connection", NoName, 0)
    /\ UNCHANGED << userState, messageHistory, lastActiveTimes, now, alive,
                    boundName >>
    /\ ClientsReceive

(***************************************************************************)
(* ws.on("message"): one action per branch of the handler.                 *)
(***************************************************************************)
Receives(ws, msg, type) ==
    /\ alive
    /\ readyState[ws] = "OPEN"
    /\ IsJSON(msg)
    /\ JSONparse(msg).type = type

OnPing(ws, msg) ==
    /\ Receives(ws, msg, "ping")
    /\ HasUser(JSONparse(msg))
    /\ LET receivedMSG == JSONparse(msg) IN
         /\ lastActiveTimes' =
                [lastActiveTimes EXCEPT ![receivedMSG.user.name] = now]
         /\ lastOp' = Op("ping", receivedMSG.user.name, 0)
    /\ sent' = Nothing
    /\ UNCHANGED << userState, messageHistory, readyState, intervals,
                    now, alive, boundName >>
    /\ ClientsReceive

\* Mutant of OnJoin: the list is sent before the push.
OnJoinSendsFirst(ws, msg) ==
    /\ Receives(ws, msg, "join")
    /\ HasUser(JSONparse(msg))
    /\ LET receivedMSG == JSONparse(msg)
           name == receivedMSG.user.name
           isExist == FindIndexByName(userState, name) # 0
       IN
         /\ IF ~isExist
            THEN /\ userState' = Append(userState, receivedMSG.user)
                 /\ lastActiveTimes' = [lastActiveTimes EXCEPT ![name] = now]
            ELSE UNCHANGED << userState, lastActiveTimes >>
         /\ sent' = SendToOpen(Nothing, UsersMsg(userState))
         /\ lastOp' = Op("join", name, IF isExist THEN 0 ELSE 1)
    /\ UNCHANGED << messageHistory, readyState, intervals, now, alive >>
    /\ ClientsReceive

OnJoin(ws, msg) ==
    /\ Receives(ws, msg, "join")
    /\ HasUser(JSONparse(msg))
    /\ LET receivedMSG == JSONparse(msg)
           name == receivedMSG.user.name
           isExist == FindIndexByName(userState, name) # 0
       IN
         /\ IF ~isExist
            THEN /\ userState' = Append(userState, receivedMSG.user)
                 /\ lastActiveTimes' = [lastActiveTimes EXCEPT ![name] = now]
            ELSE UNCHANGED << userState, lastActiveTimes >>
         /\ sent' = SendToOpen(Nothing, UsersMsg(userState'))
         /\ lastOp' = Op("join", name, IF isExist THEN 0 ELSE 1)
    /\ UNCHANGED << messageHistory, readyState, intervals, now, alive >>
    /\ ClientsReceive

\* Mutant of OnExit: the splice is made, the last-seen entry is kept.
OnExitKeepsEntry(ws, msg) ==
    /\ Receives(ws, msg, "exit")
    /\ HasUser(JSONparse(msg))
    /\ LET receivedMSG == JSONparse(msg)
           idx == FindIndexByName(userState, receivedMSG.user.name)
       IN
         /\ IF idx # 0
            THEN userState' = Splice(userState, idx)
            ELSE userState' = userState
         /\ lastActiveTimes' = lastActiveTimes
         /\ sent' = SendToOpen(Nothing, UsersMsg(userState'))
         /\ lastOp' = Op("exit", receivedMSG.user.name, IF idx # 0 THEN 1 ELSE 0)
    /\ UNCHANGED << messageHistory, readyState, intervals, now, alive,
                    boundName >>
    /\ ClientsReceive

OnExit(ws, msg) ==
    /\ Receives(ws, msg, "exit")
    /\ HasUser(JSONparse(msg))
    /\ LET receivedMSG == JSONparse(msg)
           idx == FindIndexByName(userState, receivedMSG.user.name)
       IN
         /\ IF idx # 0
            THEN /\ userState' = Splice(userState, idx)
                 /\ lastActiveTimes' =
                        [lastActiveTimes EXCEPT ![receivedMSG.user.name] = Undefined]
            ELSE UNCHANGED << userState, lastActiveTimes >>
         /\ sent' = SendToOpen(Nothing, UsersMsg(userState'))
         /\ lastOp' = Op("exit", receivedMSG.user.name, IF idx # 0 THEN 1 ELSE 0)
    /\ UNCHANGED << messageHistory, readyState, intervals, now, alive,
                    boundName >>
    /\ ClientsReceive

\* Mutant of OnSend: the frame is relayed to the other clients only.
OnSendToOthers(ws, msg) ==
    /\ Receives(ws, msg, "send")
    /\ Len(messageHistory) < MaxHistory
    /\ messageHistory' = Append(messageHistory, JSONparse(msg))
    /\ sent' = [SendToOpen(Nothing, RelayMsg(msg)) EXCEPT ![ws] = << >>]
    /\ lastOp' = Op("send", NoName, 0)
    /\ UNCHANGED << userState, lastActiveTimes, readyState, intervals, now,
                    alive, boundName >>
    /\ ClientsReceive

\* Mutant of OnSend: the event is put at the front of the log (unshift).
OnSendUnshifts(ws, msg) ==
    /\ Receives(ws, msg, "send")
    /\ Len(messageHistory) < MaxHistory
    /\ messageHistory' = << JSONparse(msg) >> \o messageHistory
    /\ sent' = SendToOpen(Nothing, RelayMsg(msg))
    /\ lastOp' = Op("send", NoName, 0)
    /\ UNCHANGED << userState, lastActiveTimes, readyState, intervals, now,
                    alive, boundName >>
    /\ ClientsReceive

OnSend(ws, msg) ==
    /\ Receives(ws, msg, "send")
    /\ Len(messageHistory) < MaxHistory
    /\ LET receivedMSG == JSONparse(msg) IN
         /\ messageHistory' = Append(messageHistory, receivedMSG)
         /\ sent' = SendToOpen(Nothing, RelayMsg(msg))
         /\ lastOp' = Op("send", NoName, 0)
    /\ UNCHANGED << userState, lastActiveTimes, readyState, intervals, now,
                    alive, boundName >>
    /\ ClientsReceive

\* Mutant of OnClear: the empty history is sent but the log is kept.
OnClearKeepsLog(ws, msg) ==
    /\ Receives(ws, msg, "clear")
    /\ messageHistory' = messageHistory
    /\ sent' = SendToOpen(Nothing, HistoryMsg(<< >>))
    /\ lastOp' = Op("clear", NoName, Len(messageHistory))
    /\ UNCHANGED << userState, lastActiveTimes, readyState, intervals, now,
                    alive, boundName >>
    /\ ClientsReceive

\* Mutant of OnClear: the empty history goes to the requesting socket only.
OnClearToSender(ws, msg) ==
    /\ Receives(ws, msg, "clear")
    /\ messageHistory' = << >>
    /\ sent' = [Nothing EXCEPT ![ws] = << HistoryMsg(<< >>) >>]
    /\ lastOp' = Op("clear", NoName, Len(messageHistory))
    /\ UNCHANGED << userState, lastActiveTimes, readyState, intervals, now,
                    alive, boundName >>
    /\ ClientsReceive

OnClear(ws, msg) ==
    /\ Receives(ws, msg, "clear")
    /\ messageHistory' = << >>
    /\ sent' = SendToOpen(Nothing, HistoryMsg(<< >>))
    /\ lastOp' = Op("clear", NoName, Len(messageHistory))
    /\ UNCHANGED << userState, lastActiveTimes, readyState, intervals, now,
                    alive, boundName >>
    /\ ClientsReceive

\* A type no branch handles: the message is logged and ignored.
OnOther(ws, msg) ==
    /\ alive
    /\ readyState[ws] = "OPEN"
    /\ IsJSON(msg)
    /\ JSONparse(msg).type \notin {"ping", "join", "exit", "send", "clear"}
    /\ lastOp' = Op("other", NoName, 0)
    /\ sent' = Nothing
    /\ UNCHANGED << userState, messageHistory, lastActiveTimes, readyState,
                    intervals, now, alive,
                    boundName >>
    /\ ClientsReceive

\* JSON.parse(msg) throws on text that is not JSON, receivedMSG.user.name
\* throws when the event has no user.  Nothing catches the exception and the
\* file installs no uncaughtException handler, so the process terminates.
\* An exit without user throws in the findIndex callback when userState is
\* not empty, and otherwise only in the log line after the broadcast.
OnThrow(ws, msg) ==
    /\ alive
    /\ readyState[ws] = "OPEN"
    /\ \/ ~IsJSON(msg)
       \/ /\ IsJSON(msg)
          /\ JSONparse(msg).type \in {"ping", "join", "exit"}
          /\ ~HasUser(JSONparse(msg))
    /\ sent' = IF /\ IsJSON(msg)
                  /\ JSONparse(msg).type = "exit"
                  /\ userState = << >>
               THEN SendToOpen(Nothing, UsersMsg(userState))
               ELSE Nothing
    /\ alive' = FALSE
    /\ lastOp' = Op("malformed", NoName, 0)
    /\ UNCHANGED << userState, messageHistory, lastActiveTimes, readyState,
                    intervals, now,
                    boundName >>
    /\ ClientsReceive

(***************************************************************************)
(* The transport closes a socket: it stops being OPEN, and its "close"     *)
(* event is emitted once it is CLOSED.                                     *)
(***************************************************************************)
TransportClose(ws) ==
    /\ alive
    /\ readyState[ws] = "OPEN"
    /\ readyState' = [readyState EXCEPT ![ws] = "CLOSING"]
    /\ lastOp' = Op("closing", NoName, 0)
    /\ sent' = Nothing
    /\ UNCHANGED << userState, messageHistory, lastActiveTimes, intervals, now, alive,
                    boundName >>
    /\ ClientsReceive

(***************************************************************************)
(* ws.on("close")                                                          *)
(***************************************************************************)
OnClose(ws) ==
    /\ alive
    /\ readyState[ws] = "CLOSING"
    /\ readyState' = [readyState EXCEPT ![ws] = "CLOSED"]
    /\ LET userIndex == FindIndexByWs(userState, ws) IN
         IF userIndex # 0
         THEN LET disconnectedUser == userState[userIndex] IN
                /\ userState' = Splice(userState, userIndex)
                /\ lastActiveTimes' =
                       [lastActiveTimes EXCEPT ![disconnectedUser.name] = Undefined]
                /\ sent' = SendToOpen(Nothing, UsersMsg(userState'))
         ELSE /\ UNCHANGED << userState, lastActiveTimes >>
              /\ sent' = Nothing
    /\ lastOp' = Op("close", NoName, 0)
    /\ UNCHANGED << messageHistory, intervals, now, alive >>
    /\ ClientsReceive

(***************************************************************************)
(* The reaper: setInterval(() => userState.forEach(...), 5000)             *)
(***************************************************************************)
\* Mutant of IsStale: an entry is stale from the threshold on.
IsStaleAtThreshold(lat, name, currentTime) ==
    /\ lat[name] # Undefined
    /\ currentTime - lat[name] >= StaleAfter

IsStale(lat, name, currentTime) ==
    /\ lat[name] # Undefined
    /\ currentTime - lat[name] > StaleAfter

\* userState.forEach((user, index) => ...) from `index` on.  forEach visits the
\* indices below the array's length in order and reads the element at each
\* visit, so after a splice the loop goes on with index + 1 in the shortened
\* array.  broadcastUserState() runs once per eviction.
RECURSIVE SweepFrom(_, _, _, _, _, _)
SweepFrom(us, lat, box, currentTime, index, evicted) ==
    IF index > Len(us)
    THEN [userState |-> us, lastActiveTimes |-> lat, sent |-> box,
          evicted |-> evicted]
    ELSE LET user == us[index] IN
         IF IsStale(lat, user.name, currentTime)
         THEN LET us2 == Splice(us, index) IN
              SweepFrom(us2, [lat EXCEPT ![user.name] = Undefined],
                        SendToOpen(box, UsersMsg(us2)), currentTime,
                        index + 1, evicted + 1)
         ELSE SweepFrom(us, lat, box, currentTime, index + 1, evicted)

\* Mutant of Sweep: one broadcast of the final list per sweep batch.
SweepBroadcastsOnce(ws) ==
    /\ alive
    /\ ws \in intervals
    /\ LET r == SweepFrom(userState, lastActiveTimes, Nothing, now, 1, 0) IN
         /\ userState' = r.userState
         /\ lastActiveTimes' = r.lastActiveTimes
         /\ sent' = IF r.evicted = 0 THEN Nothing
                    ELSE SendToOpen(Nothing, UsersMsg(r.userState))
         /\ lastOp' = Op("sweep", NoName, r.evicted)
    /\ UNCHANGED << messageHistory, readyState, intervals, now, alive,
                    boundName >>
    /\ ClientsReceive

Sweep(ws) ==
    /\ alive
    /\ ws \in intervals
    /\ LET currentTime == now
           r == SweepFrom(userState, lastActiveTimes, Nothing, currentTime, 1, 0)
       IN
         /\ userState' = r.userState
         /\ lastActiveTimes' = r.lastActiveTimes
         /\ sent' = r.sent
         /\ lastOp' = Op("sweep", NoName, r.evicted)
    /\ UNCHANGED << messageHistory, readyState, intervals, now, alive,
                    boundName >>
    /\ ClientsReceive

(***************************************************************************)
(* Time passes.                                                            *)
(***************************************************************************)
Tick(d) ==
    /\ alive
    /\ now + d <= MaxTime
    /\ now' = now + d
    /\ lastOp' = Op("tick", NoName, 0)
    /\ sent' = Nothing
    /\ UNCHANGED << userState, messageHistory, lastActiveTimes, readyState,
                    intervals, alive,
                    boundName >>
    /\ ClientsReceive

\* The clock passes MaxTime.  Only differences Date.now() - lastActiveTimes[..]
\* are ever read, so the origin of time is moved forward to keep now at
\* MaxTime; a last-seen time that would fall before the origin is already
\* older than the threshold, and stays so at the value 1.
TickPast(d) ==
    /\ alive
    /\ now + d > MaxTime
    /\ LET shift == now + d - MaxTime
           Moved(t) == IF t = Undefined THEN Undefined
                       ELSE IF t - shift < 1 THEN 1 ELSE t - shift
       IN /\ now' = now + d - shift
          /\ lastActiveTimes' = [n \in DOMAIN lastActiveTimes |->
                                    Moved(lastActiveTimes[n])]
    /\ lastOp' = Op("tick", NoName, 0)
    /\ sent' = Nothing
    /\ UNCHANGED << userState, messageHistory, readyState, intervals, alive,
                    boundName >>
    /\ ClientsReceive

\* The steps that never touch the history variable boundName: a handler other
\* than join and close runs to completion, the transport closes a socket, or
\* time passes.
Others ==
    \/ \E name \in Names : NewUser([name |-> name])
    \/ NewUser(EmptyBody)
    \/ \E ws \in Sockets : Connection(ws)
    \/ \E ws \in Sockets, msg \in Frames : OnPing(ws, msg)
    \/ \E ws \in Sockets, msg \in Frames : OnExit(ws, msg)
    \/ \E ws \in Sockets, msg \in Frames : OnSend(ws, msg)
    \/ \E ws \in Sockets, msg \in Frames : OnClear(ws, msg)
    \/ \E ws \in Sockets, msg \in Frames : OnOther(ws, msg)
    \/ \E ws \in Sockets, msg \in Frames : OnThrow(ws, msg)
    \/ \E ws \in Sockets : TransportClose(ws)
    \/ \E ws \in Sockets : Sweep(ws)
    \/ \E d \in TickDeltas : Tick(d)

Next ==
    \/ Others
    \/ \E ws \in Sockets, msg \in Frames : OnJoin(ws, msg) /\ UNCHANGED boundName
    \/ \E ws \in Sockets : OnClose(ws) /\ UNCHANGED boundName

Spec == Init /\ [][Next]_vars

\* The same steps, with the history variable boundName recording the name a
\* connected socket joined as first.
NextBound ==
    \/ Others
    \/ \E ws \in Sockets, msg \in Frames :
          /\ OnJoin(ws, msg)
          /\ boundName' = [boundName EXCEPT
                              ![ws] = IF @ = NoName
                                      THEN JSONparse(msg).user.name ELSE @]
    \/ \E ws \in Sockets :
          /\ OnClose(ws)
          /\ boundName' = [boundName EXCEPT ![ws] = NoName]

SpecBound == Init /\ [][NextBound]_vars

\* The same server with a clock that never stops, timers that keep firing and
\* time that keeps advancing.
NextLive ==
    \/ Next
    \/ \E d \in TickDeltas : TickPast(d)

SpecLive ==
    /\ Init
    /\ [][NextLive]_vars
    /\ WF_vars(\E d \in TickDeltas : Tick(d) \/ TickPast(d))
    /\ \A ws \in Sockets : WF_vars(Sweep(ws))

(***************************************************************************)
(* The sweep on its own, started in any table of up to three participants  *)
(* (so that one sweep can evict more than once), with any last-seen        *)
(* entries around the threshold and any set of sockets.                    *)
(***************************************************************************)
SweepNames == Names \cup {"carol"}
SweepTimes == {Undefined, MaxTime - StaleAfter - 1, MaxTime - StaleAfter}
Tables ==
    { us \in UNION { [1..k -> { UserOf(n) : n \in SweepNames }] :
                        k \in 0..Cardinality(SweepNames) } :
        \A i, j \in 1..Len(us) : i # j => us[i].name # us[j].name }

InitSweep ==
    /\ userState \in Tables
    /\ messageHistory = << >>
    /\ \E times \in [SweepNames -> SweepTimes] :
          lastActiveTimes = [n \in Keys \cup SweepNames |->
                               IF n \in SweepNames THEN times[n] ELSE Undefined]
    /\ readyState \in [Sockets -> {"CONNECTING", "OPEN", "CLOSING", "CLOSED"}]
    /\ intervals = { s \in Sockets : readyState[s] # "CONNECTING" }
    /\ sent = Nothing
    /\ now \in {MaxTime - 1, MaxTime}
    /\ alive = TRUE
    /\ boundName = [s \in Sockets |-> NoName]
    /\ clientHistory = Nothing
    /\ lastOp = Op("init", NoName, 0)

NextSweep == \E ws \in Sockets : Sweep(ws)

SpecSweep == InitSweep /\ [][NextSweep]_vars

(***************************************************************************)
(* The server at one instant of the clock, with two different chat events  *)
(* to send.  It starts at time MaxTime: an earlier connection (not one of  *)
(* Sockets, and gone from wsServer.clients) joined alice long enough ago   *)
(* for a sweep to evict her.                                               *)
(***************************************************************************)
ChatFrames ==
    { [json |-> [type |-> "send", text |-> "hi"], fmt |-> 0, isBinary |-> FALSE],
      [json |-> [type |-> "send", text |-> "yo"], fmt |-> 1, isBinary |-> TRUE] }
HistoryFrames == (Frames \ SendFrames) \cup ChatFrames

InitHistory ==
    /\ userState = << UserOf("alice") >>
    /\ messageHistory = << >>
    /\ lastActiveTimes = [n \in Keys |-> IF n = "alice"
                                         THEN MaxTime - StaleAfter - 1
                                         ELSE Undefined]
    /\ readyState = [s \in Sockets |-> "CONNECTING"]
    /\ intervals = {}
    /\ sent = Nothing
    /\ now = MaxTime
    /\ alive = TRUE
    /\ boundName = [s \in Sockets |-> NoName]
    /\ clientHistory = Nothing
    /\ lastOp = Op("init", NoName, 0)

NextHistory ==
    \/ \E name \in Names : NewUser([name |-> name])
    \/ NewUser(EmptyBody)
    \/ \E ws \in Sockets : Connection(ws)
    \/ \E ws \in Sockets, msg \in HistoryFrames :
          \/ OnPing(ws, msg)
          \/ OnJoin(ws, msg) /\ UNCHANGED boundName
          \/ OnExit(ws, msg)
          \/ OnSend(ws, msg)
          \/ OnClear(ws, msg)
          \/ OnOther(ws, msg)
          \/ OnThrow(ws, msg)
    \/ \E ws \in Sockets : TransportClose(ws)
    \/ \E ws \in Sockets : OnClose(ws) /\ UNCHANGED boundName
    \/ \E ws \in Sockets : Sweep(ws)

SpecHistory == InitHistory /\ [][NextHistory]_vars

\* POST /new-user on its own, with every kind of body: the tables it builds
\* hold named and nameless participants in any order.
Bodies == {EmptyBody} \cup { [name |-> n] : n \in Names } \cup NamelessBodies

NextNameless == \E body \in Bodies : NewUser(body)

SpecNameless == Init /\ [][NextNameless]_vars

(***************************************************************************)
(* Vocabulary of the properties, stated on the state alone.                *)
(***************************************************************************)
Present(us, name) == \E i \in 1..Len(us) : us[i].name = name
HasEntry(lat, name) == lat[name] # Undefined
IsOpen(s) == readyState[s] = "OPEN"
Opened(s) == readyState[s] = "CONNECTING" /\ readyState'[s] = "OPEN"
Closed(s) == readyState[s] = "CLOSING" /\ readyState'[s] = "CLOSED"

(***************************************************************************)
(* C1: userState never holds two participants with the same name, whatever *)
(* registrations, joins, exits, pings, closes and sweeps have run.         *)
(***************************************************************************)
C1_UniqueNames ==
    \A i, j \in 1..Len(userState) :
        i # j => userState[i].name # userState[j].name

\* A join for a name that was already in a table of two has just run.
C1_Witness ==
    /\ lastOp.type = "join"
    /\ lastOp.res = 0
    /\ Len(userState) = 2

(***************************************************************************)
(* C2: when a socket that joined as X is closed without an exit, the close *)
(* handler removes X (participant and last-seen entry) and sends the user  *)
(* list to every open socket exactly once; when the socket never joined,   *)
(* the close changes nothing and sends nothing.                            *)
(***************************************************************************)
C2_CloseRemovesJoined ==
    [][\A ws \in Sockets :
        (lastOp'.type = "close" /\ Closed(ws)) =>
            IF boundName[ws] # NoName
            THEN /\ ~Present(userState', boundName[ws])
                 /\ ~HasEntry(lastActiveTimes', boundName[ws])
                 /\ \A s \in Sockets :
                       IsOpen(s) =>
                           sent'[s] = << [kind |-> "users", data |-> userState'] >>
            ELSE /\ UNCHANGED << userState, lastActiveTimes >>
                 /\ \A s \in Sockets : sent'[s] = << >>]_vars

(***************************************************************************)
(* C3: one sweep removes every participant whose last-seen time is more    *)
(* than 5000 ms before the sweep, wherever it stands in the table.         *)
(***************************************************************************)
C3_SweepRemovesAllStale ==
    [][lastOp'.type = "sweep" =>
        \A i \in 1..Len(userState) :
            LET name == userState[i].name IN
            (HasEntry(lastActiveTimes, name) /\ now - lastActiveTimes[name] > 5000)
                => ~Present(userState', name)]_vars

(***************************************************************************)
(* C4: a sweep never removes a participant whose last-seen time is at most *)
(* 5000 ms before the sweep, also when it evicts others.                   *)
(***************************************************************************)
C4_SweepKeepsFresh ==
    [][lastOp'.type = "sweep" =>
        \A i \in 1..Len(userState) :
            LET name == userState[i].name IN
            (HasEntry(lastActiveTimes, name) /\ now - lastActiveTimes[name] <= 5000)
                => /\ \E k \in 1..Len(userState') : userState'[k] = userState[i]
                   /\ lastActiveTimes'[name] = lastActiveTimes[name]]_vars

\* A sweep has evicted a participant and one with a last-seen time within the
\* threshold is still in the table.
C4_Witness ==
    /\ lastOp.type = "sweep"
    /\ lastOp.res >= 1
    /\ \E i \in 1..Len(userState) :
          /\ HasEntry(lastActiveTimes, userState[i].name)
          /\ now - lastActiveTimes[userState[i].name] <= 5000

(***************************************************************************)
(* C5: a message that cannot be decoded, or lacks the user its type needs, *)
(* fails alone: the server keeps running, every socket keeps its state and *)
(* userState, lastActiveTimes and messageHistory are unchanged.            *)
(***************************************************************************)
C5_MalformedFailsAlone ==
    [][lastOp'.type = "malformed" =>
        /\ alive'
        /\ UNCHANGED << readyState, userState, lastActiveTimes, messageHistory >>]_vars

(***************************************************************************)
(* C6: a ping for a name that is not in userState changes neither          *)
(* userState nor lastActiveTimes.                                          *)
(***************************************************************************)
C6_PingUnknownIsNoop ==
    [][(lastOp'.type = "ping" /\ ~Present(userState, lastOp'.name)) =>
        UNCHANGED << userState, lastActiveTimes >>]_vars

(***************************************************************************)
(* C7: a name has a last-seen entry exactly when a participant with that   *)
(* name is in userState.                                                   *)
(***************************************************************************)
C7_EntryIffPresent ==
    \A name \in Names :
        HasEntry(lastActiveTimes, name) <=> Present(userState, name)

(***************************************************************************)
(* C8: the first message a socket is sent is the history object holding    *)
(* messageHistory as it is when the socket opens: nothing is sent to a     *)
(* socket before it opens, and the connection handler sends the history    *)
(* first and leaves the log as it was.                                     *)
(***************************************************************************)
C8_FirstMessageIsHistory ==
    [][\A ws \in Sockets :
        /\ readyState'[ws] = "CONNECTING" => sent'[ws] = << >>
        /\ Opened(ws) =>
              /\ sent'[ws] # << >>
              /\ Head(sent'[ws]).kind = "history"
              /\ Head(sent'[ws]).data = messageHistory
              /\ messageHistory' = messageHistory]_vars

\* A socket has just opened on a log of two events and was sent one message.
C8_Witness ==
    /\ lastOp.type = "connection"
    /\ Len(messageHistory) = 2
    /\ \E ws \in Sockets : Len(sent[ws]) = 1 /\ IsOpen(ws)

(***************************************************************************)
(* C9: a send appends exactly its event at the end of messageHistory and   *)
(* relays the raw frame, once, to every open socket, the sender's too.     *)
(***************************************************************************)
C9_SendAppendsAndRelays ==
    [][lastOp'.type = "send" =>
        \E msg \in SendFrames :
            /\ messageHistory' = Append(messageHistory, msg.json)
            /\ \A s \in Sockets :
                  IsOpen(s) => sent'[s] = << [kind |-> "relay", data |-> << msg >>] >>]_vars

\* A send has run on a log that held an event, with both sockets open.
C9_Witness ==
    /\ lastOp.type = "send"
    /\ Len(messageHistory) = 2
    /\ \A s \in Sockets : IsOpen(s) /\ Len(sent[s]) = 1

(***************************************************************************)
(* C10: a clear leaves messageHistory empty whatever it held and sends the *)
(* empty history object to every open socket; a socket that opens while    *)
(* the log is empty is sent the empty history.                             *)
(***************************************************************************)
C10_ClearEmptiesHistory ==
    [][/\ lastOp'.type = "clear" =>
            /\ messageHistory' = << >>
            /\ \A s \in Sockets :
                  IsOpen(s) => sent'[s] = << [kind |-> "history", data |-> << >>] >>
       /\ \A ws \in Sockets :
            (Opened(ws) /\ messageHistory = << >>) =>
                sent'[ws] = << [kind |-> "history", data |-> << >>] >>]_vars

\* A clear has dropped a log of two events with both sockets open.
C10_Witness ==
    /\ lastOp.type = "clear"
    /\ lastOp.res = 2
    /\ messageHistory = << >>
    /\ \A s \in Sockets : IsOpen(s) /\ Len(sent[s]) = 1

C12_JoinRefreshesLastSeen ==
    [][lastOp'.type = "join" =>
        /\ lastActiveTimes'[lastOp'.name] = now
        /\ IF Present(userState, lastOp'.name)
           THEN userState' = userState
           ELSE /\ Len(userState') = Len(userState) + 1
                /\ SubSeq(userState', 1, Len(userState)) = userState
                /\ userState'[Len(userState')].name = lastOp'.name]_vars

\* userState without the participants called name, order kept.
Without(us, name) == SelectSeq(us, LAMBDA u : u.name # name)

\* Every open socket got exactly the list us as its only message of the step,
\* every other socket nothing.
OnlyUsersSent(box, us) ==
    \A s \in Sockets :
        box[s] = IF IsOpen(s) THEN << [kind |-> "users", data |-> us] >> ELSE << >>

\* An exit for a name in userState removes the participant and its last-seen
\* entry and sends the resulting list to every open socket.
ExitOfPresent ==
    (lastOp'.type = "exit" /\ Present(userState, lastOp'.name)) =>
        /\ userState' = Without(userState, lastOp'.name)
        /\ Len(userState') = Len(userState) - 1
        /\ ~HasEntry(lastActiveTimes', lastOp'.name)
        /\ \A n \in Names \ {lastOp'.name} : lastActiveTimes'[n] = lastActiveTimes[n]
        /\ OnlyUsersSent(sent', userState')

(***************************************************************************)
(* C13 as stated: an exit for a name in userState removes participant and  *)
(* entry and broadcasts the new list; an exit for a name not in userState  *)
(* changes nothing, raises no error and sends no message to any socket.    *)
(***************************************************************************)
C13_ExitOfAbsentSendsNothing ==
    [][/\ ExitOfPresent
       /\ (lastOp'.type = "exit" /\ ~Present(userState, lastOp'.name)) =>
            /\ userState' = userState
            /\ lastActiveTimes' = lastActiveTimes
            /\ alive'
            /\ \A s \in Sockets : sent'[s] = << >>]_vars

(***************************************************************************)
(* C13 amended: an exit for a name in userState removes participant and    *)
(* entry and broadcasts the new list; an exit for a name not in userState  *)
(* leaves userState and the last-seen entries unchanged, raises no error,  *)
(* and still sends the unchanged list once to every open socket.           *)
(***************************************************************************)
C13_ExitOfAbsentRebroadcasts ==
    [][/\ ExitOfPresent
       /\ (lastOp'.type = "exit" /\ ~Present(userState, lastOp'.name)) =>
            /\ userState' = userState
            /\ lastActiveTimes' = lastActiveTimes
            /\ alive'
            /\ OnlyUsersSent(sent', userState)]_vars

\* An exit for a name that was not in userState has just been handled while
\* another participant was listed, and an open socket got the list.
C13_Witness ==
    /\ lastOp.type = "exit"
    /\ lastOp.res = 0
    /\ Len(userState) = 1
    /\ \E s \in Sockets : IsOpen(s) /\ Len(sent[s]) = 1

(***************************************************************************)
(* C14: a registration whose body is empty, has no name property or has    *)
(* the name "" is answered with an error status other than 409 and adds no *)
(* participant.                                                            *)
(***************************************************************************)
C14_NamelessRegistrationRejected ==
    [][(lastOp'.type = "new-user" /\ lastOp'.name \notin Names) =>
        /\ lastOp'.res \notin {200, 409}
        /\ userState' = userState]_vars

(***************************************************************************)
(* C15: while the server runs, a participant in userState is eventually    *)
(* removed from it unless a further ping or join for its name is handled,  *)
(* given that time advances and every started timer keeps firing; however  *)
(* the participant entered userState and whether or not a socket is open.  *)
(***************************************************************************)
C15_UntouchedEventuallyRemoved ==
    \A n \in Names :
        (alive /\ Present(userState, n)) ~>
            \/ ~Present(userState, n)
            \/ lastOp.type \in {"ping", "join"} /\ lastOp.name = n
            \/ ~alive

(***************************************************************************)
(* C16: while the server runs, the number of running sweep timers equals   *)
(* the number of connections that are open (a connection counts as open    *)
(* until its close handler has run).                                       *)
(***************************************************************************)
C16_OneTimerPerOpenConnection ==
    alive =>
        Cardinality(intervals) =
            Cardinality({ s \in Sockets : readyState[s] \in {"OPEN", "CLOSING"} })

\* The names a step removes from userState.
Gone == { n \in SweepNames : Present(userState, n) /\ ~Present(userState', n) }

\* The lists an open socket has before the step and after each message of it.
SnapshotAt(s, i) == IF i = 0 THEN userState ELSE sent'[s][i].data

(***************************************************************************)
(* C17: a sweep removes only participants whose last-seen entry is older   *)
(* than the threshold, each together with its entry, keeps the others in   *)
(* order, and sends every open socket exactly one list per eviction: the   *)
(* i-th list is the list before it without one evicted participant, and    *)
(* the last one is the new userState.  An evicted participant has neither  *)
(* a place in userState nor an entry left for another timer to evict.      *)
(***************************************************************************)
C17_OneBroadcastPerEviction ==
    [][lastOp'.type = "sweep" =>
        /\ \A n \in Gone :
              /\ HasEntry(lastActiveTimes, n)
              /\ now - lastActiveTimes[n] > StaleAfter
              /\ ~HasEntry(lastActiveTimes', n)
        /\ userState' = SelectSeq(userState, LAMBDA u : u.name \notin Gone)
        /\ Len(userState') = Len(userState) - Cardinality(Gone)
        /\ \A s \in Sockets :
              IF IsOpen(s)
              THEN /\ Len(sent'[s]) = Cardinality(Gone)
                   /\ \A i \in 1..Len(sent'[s]) :
                         /\ sent'[s][i].kind = "users"
                         /\ \E n \in Gone :
                               /\ Present(SnapshotAt(s, i - 1), n)
                               /\ SnapshotAt(s, i) = Without(SnapshotAt(s, i - 1), n)
                   /\ SnapshotAt(s, Len(sent'[s])) = userState'
              ELSE sent'[s] = << >>]_vars

\* A sweep has just evicted two of three participants and an open socket got
\* two lists, the last one being the participant that is left.
C17_Witness ==
    /\ lastOp.type = "sweep"
    /\ lastOp.res = 2
    /\ Len(userState) = 1
    /\ \E s \in Sockets :
          /\ IsOpen(s)
          /\ Len(sent[s]) = 2
          /\ Len(sent[s][1].data) = 2
          /\ sent[s][2].data = userState

(***************************************************************************)
(* C18: messageHistory changes only in the send handler, which puts the    *)
(* event of the frame it processed (the one it relays) at the end and      *)
(* keeps what was there, and in the clear handler, which empties it; so    *)
(* until a clear every earlier value is a prefix of every later one.       *)
(* Registration, ping, join, exit, close, sweeps and every other step      *)
(* leave it unchanged.                                                     *)
(***************************************************************************)
C18_HistoryAppendOnly ==
    [][/\ lastOp'.type = "send" =>
            /\ Len(messageHistory') = Len(messageHistory) + 1
            /\ SubSeq(messageHistory', 1, Len(messageHistory)) = messageHistory
            /\ \E s \in Sockets, f \in ChatFrames :
                  /\ sent'[s] = << [kind |-> "relay", data |-> << f >>] >>
                  /\ messageHistory'[Len(messageHistory')] = f.json
       /\ lastOp'.type = "clear" => messageHistory' = << >>
       /\ lastOp'.type \notin {"send", "clear"} => messageHistory' = messageHistory]_vars

\* Two different events have been sent, the second just now, and alice has
\* left the table meanwhile: the log holds them in the order they were
\* processed.
C18_Witness ==
    /\ lastOp.type = "send"
    /\ messageHistory = << [type |-> "send", text |-> "yo"],
                           [type |-> "send", text |-> "hi"] >>
    /\ userState = << >>
    /\ ~HasEntry(lastActiveTimes, "alice")

\* The step's last message to every open socket is the new userState.
NewListReachesOpen ==
    \A s \in Sockets :
        IsOpen(s) =>
            /\ sent'[s] # << >>
            /\ sent'[s][Len(sent'[s])] = [kind |-> "users", data |-> userState']

(***************************************************************************)
(* C19 as stated: every step that changes userState, registration          *)
(* included, ends with the new list sent to every open socket, so that the *)
(* last list an open socket got is the current userState.                  *)
(***************************************************************************)
C19_EveryChangeIsBroadcast ==
    [][userState' # userState => NewListReachesOpen]_vars

(***************************************************************************)
(* C19 amended: every step other than a registration that changes          *)
(* userState (join, exit, sweep) ends with the new list sent to every open *)
(* socket; a registration changes userState and sends nothing, so an open  *)
(* socket sees a registered participant only in the next list sent.        *)
(***************************************************************************)
C19_ChangeIsBroadcastButRegistration ==
    [][userState' # userState =>
        IF lastOp'.type = "new-user"
        THEN \A s \in Sockets : sent'[s] = << >>
        ELSE lastOp'.type \in {"join", "exit", "sweep"} /\ NewListReachesOpen]_vars

\* A join has just added a second participant and both sockets, open, got the
\* list of the two.
C19_Witness ==
    /\ lastOp.type = "join"
    /\ lastOp.res = 1
    /\ Len(userState) = 2
    /\ \A s \in Sockets : IsOpen(s) /\ sent[s] = << [kind |-> "users", data |-> userState] >>

(***************************************************************************)
(* C20: between handlers, what the client of every open socket has put     *)
(* together (the data of the history message it got on connecting, plus    *)
(* the event of every relayed send frame, reset by every later history     *)
(* message) is the server's messageHistory.                                *)
(***************************************************************************)
C20_ClientHistoryIsLog ==
    \A s \in Sockets : IsOpen(s) => clientHistory[s] = messageHistory

\* A socket that connected after two different events were sent holds both,
\* from its history message; the other open socket holds them from the relays
\* that followed a clear.
C20_Witness ==
    /\ lastOp.type = "connection"
    /\ Len(messageHistory) = 2
    /\ messageHistory[1] # messageHistory[2]
    /\ \A s \in Sockets : IsOpen(s) /\ clientHistory[s] = messageHistory
    /\ \E s \in Sockets : sent[s] = << [kind |-> "history", data |-> messageHistory] >>

=============================================================================
